---- MODULE Spec2Model ----
(***************************************************************************)
(* A model of app.py: the per-user conversation history (a dict of bounded *)
(* deques guarded by one lock), the Flask routes, the webhook handler that *)
(* starts one thread per text-message event, and worker_reply.             *)
(*                                                                         *)
(* Text is a sequence of one-character strings, so that strip(), len() and *)
(* slicing are computed as Python computes them.                           *)
(***************************************************************************)
EXTENDS Naturals, Sequences, FiniteSets, TLC

VARIABLES
    history,    \* the dict history: user_id -> deque of (role, text)
    hist_lock,  \* the thread holding hist_lock, or NoThread
    thr,        \* the threads started so far: reply token -> frame
    req         \* the HTTP requests: id -> request/response record

vars == <<history, hist_lock, thr, req>>

----------------------------------------------------------------------------
(* Bounds of the model *)

\* HTTP requests that arrive
NumReqs == 2
\* text-message events accepted over all requests (threads started)
MaxThreads == 2
\* independent callers of append_turn in SpecAppend
NumCallers == 7
\* sequential worker_reply calls in SpecSeq
NumExchanges == 5
\* generated texts in SpecReply are up to MaxExtra characters long, or within
\* MaxExtra characters of the reply budget
MaxExtra == 2
\* append_turn calls of other workers that run beside one worker in SpecCrowd
NumRivals == 6

----------------------------------------------------------------------------
(* Program constants and literals *)

\* deque(maxlen=6)
Capacity == 6
\* if len(reply) > 1000
MaxReplyLen == 1000

\* "(empty)"
EmptyPlaceholder == <<"(", "e", "m", "p", "t", "y", ")">>
\* "(No response)"
NoResponse == <<"(", "N", "o", " ", "r", "e", "s", "p", "o", "n", "s", "e", ")">>
\* "Gemini error: "
GeminiErrorPrefix == <<"G", "e", "m", "i", "n", "i", " ", "e", "r", "r", "o", "r", ":", " ">>
\* the one-character truncation marker U+2026, written as one element
Ellipsis == <<"U+2026">>

\* the no-history marker: U+FF08, five ideographs, U+FF09
NoHistoryMarker == <<"U+FF08", "U+7121", "U+5C0D", "U+8A71", "U+8A18", "U+9304", "U+FF09">>
\* the template of build_prompt: its static text up to {past_text} written as
\* one element, " [User] " with its two brackets U+3010 and U+3011, and the
\* static text after {user_text} written as one element
PromptHead == <<"style guide, knowledge base, recent-conversation heading">>
PromptMid == <<" ", "U+3010", "U", "s", "e", "r", "U+3011", " ">>
PromptTail == <<"answer-length instruction">>

NoThread == <<>>
NoText == <<>>

----------------------------------------------------------------------------
(* Pure helpers *)

DigitChars == <<"1", "2", "3", "4", "5", "6", "7", "8", "9">>

IsSpace(c) == c \in {" ", "\t", "\n"}

RECURSIVE LStrip(_)
LStrip(s) == IF s # <<>> /\ IsSpace(Head(s)) THEN LStrip(Tail(s)) ELSE s

RECURSIVE RStrip(_)
RStrip(s) ==
    IF s # <<>> /\ IsSpace(s[Len(s)]) THEN RStrip(SubSeq(s, 1, Len(s) - 1)) ELSE s

\* str.strip()
Strip(s) == RStrip(LStrip(s))

\* x or default, for a string x (None and "" are both falsy)
OrElse(x, default) == IF x = <<>> THEN default ELSE x

\* deque.append on a deque(maxlen=6): a full deque drops its oldest element
DequeAppend_NoEvict(dq, x) == Append(dq, x)
DequeAppend_DropNewest(dq, x) == IF Len(dq) >= Capacity THEN dq ELSE Append(dq, x)
DequeAppend(dq, x) ==
    IF Len(dq) >= Capacity THEN Append(Tail(dq), x) ELSE Append(dq, x)

\* history.get(user_id, deque()) as a list
Window(u) == IF u \in DOMAIN history THEN history[u] ELSE <<>>

\* get_user_id: source.user_id, or "anonymous" when it is absent or empty
get_user_id(event) == IF event.user_id = "" THEN "anonymous" ELSE event.user_id

\* reply = (resp.text or "(No response)").strip(), cut to 1000 characters + U+2026
ReplyOf_NoMarker(text) ==
    LET reply == Strip(OrElse(text, NoResponse))
    IN  IF Len(reply) > MaxReplyLen THEN SubSeq(reply, 1, MaxReplyLen) ELSE reply
ReplyOf(text) ==
    LET reply == Strip(OrElse(text, NoResponse))
    IN  IF Len(reply) > MaxReplyLen
        THEN SubSeq(reply, 1, MaxReplyLen) \o Ellipsis
        ELSE reply

\* reply = f"Gemini error: {e}"
FallbackOf_NoDetail(e) == GeminiErrorPrefix
FallbackOf(e) == GeminiErrorPrefix \o e

\* speaker = "User" if role == "user" else "Assistant"
Speaker_Swapped(role) ==
    IF role = "user" THEN <<"A", "s", "s", "i", "s", "t", "a", "n", "t">>
    ELSE <<"U", "s", "e", "r">>
Speaker(role) ==
    IF role = "user" THEN <<"U", "s", "e", "r">>
    ELSE <<"A", "s", "s", "i", "s", "t", "a", "n", "t">>

\* for role, txt in past: lines.append(f"{speaker}: {txt}")
Lines(past) == [i \in 1 .. Len(past) |-> Speaker(past[i][1]) \o <<":", " ">> \o past[i][2]]

\* "\n".join(lines)
RECURSIVE Join(_)
Join(lines) ==
    IF lines = <<>> THEN <<>>
    ELSE IF Len(lines) = 1 THEN lines[1]
    ELSE lines[1] \o <<"\n">> \o Join(Tail(lines))

\* past_text = "\n".join(lines) if lines else the no-history marker
PastText(past) == IF Lines(past) # <<>> THEN Join(Lines(past)) ELSE NoHistoryMarker

\* the f-string of build_prompt
PromptOf_SeesStore(past, user_text) ==
    PromptHead \o <<DigitChars[Cardinality(DOMAIN history) + 1]>> \o PastText(past)
        \o PromptMid \o user_text \o PromptTail
PromptOf(past, user_text) ==
    PromptHead \o PastText(past) \o PromptMid \o user_text \o PromptTail

----------------------------------------------------------------------------
(* Inputs *)

Hi == <<"h", "i">>
Yo == <<"y", "o">>
Blank == <<" ">>
HiPadded == <<" ", "h", "i", "\n">>

\* what resp.text can be when generation succeeds
GenTexts == {<<" ", "o", "k">>, <<>>, <<" ">>}
\* str(e) of an exception raised by generate_content or by resp.text
GenErrors == {<<"4", "2", "9">>}

EvText(u, t) == [kind |-> "text", user_id |-> u, text |-> t]
EvOther == [kind |-> "other", user_id |-> "", text |-> <<>>]

\* request bodies: ok = FALSE is a body that fails to parse as an event batch
\* (here after a first event that is well formed)
Malformed == [ok |-> FALSE, events |-> <<EvText("u1", Hi)>>]
Bodies ==
    { Malformed,
      [ok |-> TRUE, events |-> <<EvText("", Blank)>>],
      [ok |-> TRUE, events |-> <<EvOther, EvText("u1", HiPadded)>>],
      [ok |-> TRUE, events |-> <<EvText("u1", Hi), EvText("u1", Yo)>>] }

\* the X-Line-Signature header: "" when missing
Signatures == {"valid", "bad", ""}

\* the POST requests that arrive: every body correctly signed, and one body
\* with a signature that does not match or is missing
Posts ==
    {<<"valid", body>> : body \in Bodies}
        \cup {<<sig, [ok |-> TRUE, events |-> <<EvText("u1", Hi), EvText("u1", Yo)>>]>> :
                 sig \in Signatures \ {"valid"}}

Reqs == 1 .. NumReqs

TextEvents(body) == {i \in 1 .. Len(body.events) : body.events[i].kind = "text"}

----------------------------------------------------------------------------
(* Threads *)

\* The frame of a thread running worker_reply (or append_turn alone):
\*   pc         where the thread is
\*   user_id, user_text   the arguments of worker_reply
\*   reply_token          the reply token of the event
\*   arg, ret   the turn passed to append_turn, and where append_turn returns to
\*   bret       where build_prompt returns to
\*   dq         the local dq of append_turn: "None" or "deque" once looked up
\*   past       the local past of build_prompt (a copy), from which the prompt
\*              is rendered; it is dropped when generate_content is over
\*   snapped    whether past holds a snapshot
\*   prompt     the prompt build_prompt returned, until generate_content is over
\*   log        the steps the thread has made on the history store, the
\*              generation client and the send API, in order
\*   resp       resp.text when generate_content returned
\*   reply, err the local reply, and str(e) when generation raised
\*   sent       the reply_message requests this thread made
Frame(pc, u, t, token, turn, ret, bret) ==
    [pc |-> pc, user_id |-> u, user_text |-> t, reply_token |-> token,
     arg |-> turn, ret |-> ret, bret |-> bret,
     dq |-> "unset", past |-> <<>>, snapped |-> FALSE, prompt |-> <<>>,
     resp |-> <<>>, reply |-> <<>>, err |-> <<>>, failed |-> FALSE, sent |-> <<>>,
     log |-> <<>>]

NoTurn == <<"", <<>>>>
NoToken == <<0, 0>>

\* worker_reply starts with append_turn(user_id, "user", user_text or "(empty)")
\* and goes on with build_prompt(user_text, user_id)
worker_reply_PromptFirst(u, t, token) ==
    Frame("bp_lock", u, t, token, <<"user", OrElse(t, EmptyPlaceholder)>>, "gen", "at_lock")
worker_reply_NoPlaceholder(u, t, token) ==
    Frame("at_lock", u, t, token, <<"user", t>>, "bp_lock", "gen")
worker_reply_NoUserTurn(u, t, token) ==
    Frame("bp_lock", u, t, token, NoTurn, "bp_lock", "gen")
worker_reply_NoToken(u, t, token) ==
    Frame("at_lock", u, t, NoToken, <<"user", OrElse(t, EmptyPlaceholder)>>, "bp_lock", "gen")
worker_reply(u, t, token) ==
    Frame("at_lock", u, t, token, <<"user", OrElse(t, EmptyPlaceholder)>>, "bp_lock", "gen")

Threads == DOMAIN thr

\* a thread at one of these is inside the with block of append_turn
AppendPcs == {"at_put", "at_app"}
FinalPcs == {"done", "dead"}

\* Lock.acquire returns only when no thread holds the lock
LockFree_NoMutex == TRUE
LockFree == hist_lock = NoThread

\* append_turn: with hist_lock: dq = history.get(user_id)
AtAcquire(w) ==
    /\ thr[w].pc = "at_lock"
    /\ LockFree
    /\ hist_lock' = w
    /\ LET found == thr[w].user_id \in DOMAIN history
       IN  thr' = [thr EXCEPT ![w].dq = IF found THEN "deque" ELSE "None",
                              ![w].pc = IF found THEN "at_app" ELSE "at_put"]
    /\ UNCHANGED <<history, req>>

\* append_turn: dq = deque(maxlen=6); history[user_id] = dq
AtPut_ReplacesStore(w) ==
    /\ thr[w].pc = "at_put"
    /\ history' = (thr[w].user_id :> <<>>)
    /\ thr' = [thr EXCEPT ![w].dq = "deque", ![w].pc = "at_app"]
    /\ UNCHANGED <<hist_lock, req>>
AtPut(w) ==
    /\ thr[w].pc = "at_put"
    /\ history' = (thr[w].user_id :> <<>>) @@ history
    /\ thr' = [thr EXCEPT ![w].dq = "deque", ![w].pc = "at_app"]
    /\ UNCHANGED <<hist_lock, req>>

\* append_turn: dq.append((role, text)), the end of the with block, the return
AtAppend(w) ==
    /\ thr[w].pc = "at_app"
    /\ history' = [history EXCEPT ![thr[w].user_id] = DequeAppend(@, thr[w].arg)]
    /\ hist_lock' = NoThread
    /\ thr' = [thr EXCEPT ![w].pc = thr[w].ret, ![w].dq = "unset",
                          ![w].log = Append(@, IF thr[w].arg[1] = "user"
                                               THEN "append_user"
                                               ELSE "append_assistant")]
    /\ UNCHANGED req

\* build_prompt: with hist_lock: past = list(history.get(user_id, deque()))
BpSnapshot(w) ==
    /\ thr[w].pc = "bp_lock"
    /\ LockFree
    /\ hist_lock' = w
    /\ thr' = [thr EXCEPT ![w].past = Window(thr[w].user_id),
                          ![w].snapped = TRUE,
                          ![w].log = Append(@, "snapshot"),
                          ![w].pc = "bp_rel"]
    /\ UNCHANGED <<history, req>>

\* build_prompt: the end of the with block; the prompt is rendered from past
\* and user_text alone and returned (worker_reply then calls generate_content)
BpRelease_KeepsLock(w) ==
    /\ thr[w].pc = "bp_rel"
    /\ thr' = [thr EXCEPT ![w].prompt = PromptOf(thr[w].past, thr[w].user_text),
                          ![w].pc = thr[w].bret]
    /\ UNCHANGED <<history, hist_lock, req>>
BpRelease(w) ==
    /\ thr[w].pc = "bp_rel"
    /\ hist_lock' = NoThread
    /\ thr' = [thr EXCEPT ![w].prompt = PromptOf(thr[w].past, thr[w].user_text),
                          ![w].pc = thr[w].bret]
    /\ UNCHANGED <<history, req>>

\* worker_reply: generate_content returns with resp.text = text, reply is
\* computed, and append_turn(user_id, "assistant", reply) is called
Respond(w, text) ==
    thr' = [thr EXCEPT ![w].past = <<>>,
                       ![w].snapped = FALSE,
                       ![w].prompt = <<>>,
                       ![w].log = Append(@, "generate"),
                       ![w].resp = text,
                       ![w].reply = ReplyOf(text),
                       ![w].arg = <<"assistant", ReplyOf(text)>>,
                       ![w].ret = "send",
                       ![w].pc = "at_lock"]

GenerateOk(w) ==
    /\ thr[w].pc = "gen"
    /\ \E text \in GenTexts : Respond(w, text)
    /\ UNCHANGED <<history, hist_lock, req>>

\* worker_reply: generate_content (or resp.text) raises; except Exception as e
GenerateRaises(w) ==
    /\ thr[w].pc = "gen"
    /\ \E e \in GenErrors :
          thr' = [thr EXCEPT ![w].past = <<>>,
                             ![w].snapped = FALSE,
                             ![w].prompt = <<>>,
                             ![w].log = Append(@, "generate"),
                             ![w].reply = FallbackOf(e),
                             ![w].err = e,
                             ![w].failed = TRUE,
                             ![w].arg = <<"assistant", FallbackOf(e)>>,
                             ![w].ret = "send",
                             ![w].pc = "at_lock"]
    /\ UNCHANGED <<history, hist_lock, req>>

\* where worker_reply goes after reply_message: it returns, or the exception
\* of a failed send ends the thread
AfterSend_Retry(ok) == IF ok THEN "done" ELSE "send"
AfterSend(ok) == IF ok THEN "done" ELSE "dead"

\* worker_reply: MessagingApi(api_client).reply_message(...)
Send(w) ==
    /\ thr[w].pc = "send"
    /\ \E ok \in BOOLEAN :
          thr' = [thr EXCEPT ![w].sent = Append(@, [replyToken |-> thr[w].reply_token,
                                                    text |-> thr[w].reply]),
                             ![w].log = Append(@, "send"),
                             ![w].pc = AfterSend(ok)]
    /\ UNCHANGED <<history, hist_lock, req>>

----------------------------------------------------------------------------
(* HTTP requests *)

\* requests are numbered in the order they arrive
Arrives(r) == req[r].pc = "idle" /\ \A q \in Reqs : q < r => req[q].pc # "idle"

IdleReq ==
    [pc |-> "idle", method |-> "", path |-> "", sig |-> "",
     body |-> [ok |-> TRUE, events |-> <<>>], idx |-> 0, status |-> 0]

\* the reply token of the i-th event of request r; it names the worker thread
Token(r, i) == <<r, i>>

\* text-message events of the requests whose events are handled
Accepted ==
    UNION {{Token(r, i) : i \in IF req[r].idx > 0 THEN TextEvents(req[r].body) ELSE {}} :
              r \in Reqs}

\* the signature check of WebhookHandler (a black box: valid or not)
SignatureValid_Any(sig) == TRUE
SignatureValid(sig) == sig = "valid"

\* handler.handle: the signature is checked, then the whole body is parsed,
\* and only then are the events handled
HandleOutcome(sig, body) ==
    IF ~SignatureValid(sig) THEN "InvalidSignatureError"
    ELSE IF ~body.ok THEN "ParseError"
    ELSE "ok"

\* callback: InvalidSignatureError is caught and becomes abort(400); any other
\* exception leaves the view, which Flask answers with 500
CallbackStatus(outcome) ==
    CASE outcome = "InvalidSignatureError" -> 400
      [] outcome = "ok" -> 200
      [] OTHER -> 500

\* root_health: GET /
root_health(r) ==
    /\ Arrives(r)
    /\ req' = [req EXCEPT ![r] = [IdleReq EXCEPT !.pc = "done", !.method = "GET",
                                                 !.path = "/", !.status = 200]]
    /\ UNCHANGED <<history, hist_lock, thr>>

\* callback: GET /callback
CallbackGet_NoMethodCheck(r) ==
    /\ Arrives(r)
    /\ req' = [req EXCEPT ![r] =
                  [IdleReq EXCEPT !.pc = "done", !.method = "GET", !.path = "/callback",
                                  !.status = CallbackStatus(HandleOutcome("", IdleReq.body))]]
    /\ UNCHANGED <<history, hist_lock, thr>>
CallbackGet(r) ==
    /\ Arrives(r)
    /\ req' = [req EXCEPT ![r] = [IdleReq EXCEPT !.pc = "done", !.method = "GET",
                                                 !.path = "/callback", !.status = 200]]
    /\ UNCHANGED <<history, hist_lock, thr>>

\* callback: POST /callback up to the first event handler: the header and the
\* body are read, handler.handle checks the signature and parses the body
\* (the model accepts at most MaxThreads text events over all requests)
CallbackPost(r) ==
    /\ Arrives(r)
    /\ \E post \in Posts :
          LET sig == post[1]
              body == post[2]
              outcome == HandleOutcome(sig, body)
          IN  /\ outcome = "ok" =>
                    Cardinality(Accepted) + Cardinality(TextEvents(body)) <= MaxThreads
              /\ req' = [req EXCEPT ![r] =
                    [pc |-> IF outcome = "ok" THEN "dispatch" ELSE "done",
                     method |-> "POST", path |-> "/callback", sig |-> sig,
                     body |-> body, idx |-> IF outcome = "ok" THEN 1 ELSE 0,
                     status |-> IF outcome = "ok" THEN 0 ELSE CallbackStatus(outcome)]]
    /\ UNCHANGED <<history, hist_lock, thr>>

\* on_text_message: Thread(target=worker_reply, args=(...), daemon=True).start()
on_text_message(r) ==
    /\ req[r].pc = "dispatch"
    /\ req[r].idx <= Len(req[r].body.events)
    /\ LET event == req[r].body.events[req[r].idx]
       IN  /\ event.kind = "text"
           /\ thr' = (Token(r, req[r].idx) :>
                         worker_reply(get_user_id(event), Strip(event.text),
                                      Token(r, req[r].idx))) @@ thr
    /\ req' = [req EXCEPT ![r].idx = @ + 1]
    /\ UNCHANGED <<history, hist_lock>>

\* handler.handle: an event no handler is registered for is skipped
SkipEvent(r) ==
    /\ req[r].pc = "dispatch"
    /\ req[r].idx <= Len(req[r].body.events)
    /\ req[r].body.events[req[r].idx].kind # "text"
    /\ req' = [req EXCEPT ![r].idx = @ + 1]
    /\ UNCHANGED <<history, hist_lock, thr>>

\* callback returns without joining the threads it started
CanReturn_Join(r) == \A w \in Threads : w[1] = r => thr[w].pc \in FinalPcs
CanReturn(r) == TRUE

\* callback: return "OK", 200
CallbackReturn(r) ==
    /\ req[r].pc = "dispatch"
    /\ req[r].idx > Len(req[r].body.events)
    /\ CanReturn(r)
    /\ req' = [req EXCEPT ![r].pc = "done", ![r].status = CallbackStatus("ok")]
    /\ UNCHANGED <<history, hist_lock, thr>>

----------------------------------------------------------------------------
(* The service: requests arrive, handlers and worker threads interleave *)

Init ==
    /\ history = <<>>
    /\ hist_lock = NoThread
    /\ thr = <<>>
    /\ req = [r \in Reqs |-> IdleReq]

Next ==
    \/ \E r \in Reqs : root_health(r)
    \/ \E r \in Reqs : CallbackGet(r)
    \/ \E r \in Reqs : CallbackPost(r)
    \/ \E r \in Reqs : on_text_message(r)
    \/ \E r \in Reqs : SkipEvent(r)
    \/ \E r \in Reqs : CallbackReturn(r)
    \/ \E w \in Threads : AtAcquire(w)
    \/ \E w \in Threads : AtPut(w)
    \/ \E w \in Threads : AtAppend(w)
    \/ \E w \in Threads : BpSnapshot(w)
    \/ \E w \in Threads : BpRelease(w)
    \/ \E w \in Threads : GenerateOk(w)
    \/ \E w \in Threads : GenerateRaises(w)
    \/ \E w \in Threads : Send(w)

Spec == Init /\ [][Next]_vars

\* The same service under fair scheduling.  Every thread that can take a
\* step is eventually scheduled, and so is every request handler that has
\* started; requests need not arrive.  A call of generate_content returns or
\* raises eventually, except in the worker Hung, whose call may never return.
Tokens == UNION {{Token(r, i) : i \in 1 .. Len(b.events)} : r \in Reqs, b \in Bodies}
Hung == Token(1, 1)

\* the steps of a thread outside generate_content
LocalStep(w) ==
    /\ w \in Threads
    /\ AtAcquire(w) \/ AtPut(w) \/ AtAppend(w) \/ BpSnapshot(w) \/ BpRelease(w) \/ Send(w)

GenerateReturns(w) == w \in Threads /\ (GenerateOk(w) \/ GenerateRaises(w))

HandlerStep(r) == on_text_message(r) \/ SkipEvent(r) \/ CallbackReturn(r)

Fairness ==
    /\ \A w \in Tokens : WF_vars(LocalStep(w))
    /\ \A w \in Tokens \ {Hung} : WF_vars(GenerateReturns(w))
    /\ \A r \in Reqs : WF_vars(HandlerStep(r))

SpecLive == Init /\ [][Next]_vars /\ Fairness

----------------------------------------------------------------------------
(* The history store alone: threads that each call append_turn once, and    *)
(* threads that each call build_prompt once, all concurrently              *)

Callers == {<<0, c>> : c \in 1 .. NumCallers}

\* the turn of caller c: the texts differ, so that every turn is told apart
CallerTurn(c) == <<IF c % 2 = 1 THEN "user" ELSE "assistant", <<"m", DigitChars[c]>>>>

\* a thread calling append_turn(u, role, text)
Appender(u, c) == Frame("at_lock", u, NoText, NoToken, CallerTurn(c), "done", "done")
\* a thread calling build_prompt(text, u)
Reader(u) == Frame("bp_lock", u, Hi, NoToken, NoTurn, "done", "done")

\* the threads at the start: NumCallers appends for one user; or the last of
\* them for another user; or three appends for one user with a build_prompt
\* call for that user and one for a user who never gets a turn
Harnesses ==
    { [w \in Callers |-> Appender("u1", w[2])],
      [w \in Callers |-> Appender(IF w[2] = NumCallers THEN "anonymous" ELSE "u1", w[2])],
      [w \in {<<0, 1>>, <<0, 2>>, <<0, 3>>, <<1, 1>>, <<1, 2>>} |->
          IF w[1] = 0 THEN Appender("u1", w[2])
          ELSE Reader(IF w[2] = 1 THEN "u1" ELSE "u2")] }

InitAppend ==
    /\ history = <<>>
    /\ hist_lock = NoThread
    /\ req = [r \in Reqs |-> IdleReq]
    /\ thr \in Harnesses

NextAppend ==
    \/ \E w \in Threads : AtAcquire(w)
    \/ \E w \in Threads : AtPut(w)
    \/ \E w \in Threads : AtAppend(w)
    \/ \E w \in Threads : BpSnapshot(w)
    \/ \E w \in Threads : BpRelease(w)

SpecAppend == InitAppend /\ [][NextAppend]_vars

----------------------------------------------------------------------------
(* worker_reply called NumExchanges times for one user, one call after the *)
(* other: the next exchange starts when the previous worker has ended     *)

\* the text of the k-th message: the second one is empty
SeqTexts(k) == IF k = 2 THEN {<<>>} ELSE {<<"q", DigitChars[k]>>}

SeqCall ==
    /\ \A w \in Threads : thr[w].pc \in FinalPcs
    /\ Cardinality(Threads) < NumExchanges
    /\ LET k == Cardinality(Threads) + 1
       IN  \E t \in SeqTexts(k) : thr' = (<<0, k>> :> worker_reply("u1", t, <<0, k>>)) @@ thr
    /\ UNCHANGED <<history, hist_lock, req>>

NextSeq ==
    \/ SeqCall
    \/ \E w \in Threads : AtAcquire(w)
    \/ \E w \in Threads : AtPut(w)
    \/ \E w \in Threads : AtAppend(w)
    \/ \E w \in Threads : BpSnapshot(w)
    \/ \E w \in Threads : BpRelease(w)
    \/ \E w \in Threads : GenerateOk(w)
    \/ \E w \in Threads : GenerateRaises(w)
    \/ \E w \in Threads : Send(w)

SpecSeq == Init /\ [][NextSeq]_vars

----------------------------------------------------------------------------
(* One worker_reply call whose generation returns a text of any length      *)
(* around the reply budget                                                  *)

\* n characters that differ from their neighbours
Body(n) == [i \in 1 .. n |-> DigitChars[(i % 9) + 1]]

ShortLens == 0 .. MaxExtra
LongLens == (MaxReplyLen - MaxExtra) .. (MaxReplyLen + MaxExtra)

\* resp.text: a body, possibly with white space before or after it
LongTexts ==
    {pre \o Body(n) \o suf :
        pre \in {<<>>, <<" ">>}, suf \in {<<>>, <<"\n">>}, n \in ShortLens \cup LongLens}

InitReply ==
    /\ history = <<>>
    /\ hist_lock = NoThread
    /\ req = [r \in Reqs |-> IdleReq]
    /\ \E t \in {Hi, NoText} : thr = (<<0, 1>> :> worker_reply("u1", t, <<0, 1>>))

GenerateLong(w) ==
    /\ thr[w].pc = "gen"
    /\ \E text \in LongTexts : Respond(w, text)
    /\ UNCHANGED <<history, hist_lock, req>>

NextReply ==
    \/ \E w \in Threads : AtAcquire(w)
    \/ \E w \in Threads : AtPut(w)
    \/ \E w \in Threads : AtAppend(w)
    \/ \E w \in Threads : BpSnapshot(w)
    \/ \E w \in Threads : BpRelease(w)
    \/ \E w \in Threads : GenerateLong(w)
    \/ \E w \in Threads : GenerateRaises(w)
    \/ \E w \in Threads : Send(w)

SpecReply == InitReply /\ [][NextReply]_vars

----------------------------------------------------------------------------
(* build_prompt called twice for one user, over a store that already holds *)
(* a window for that user, while turns are appended for that user and for  *)
(* another one                                                              *)

\* a thread calling build_prompt(t, u)
Builder(u, t) == Frame("bp_lock", u, t, NoToken, NoTurn, "done", "done")

\* the windows of the user at the start: none, one turn of two lines, an
\* empty user text with an empty reply, and a full window
PromptWindows ==
    { <<>>,
      <<<<"user", <<"a", "\n", "b">>>>>>,
      <<<<"user", EmptyPlaceholder>>, <<"assistant", <<>>>>>>,
      <<<<"user", <<"q", "1">>>>, <<"user", <<"q", "2">>>>, <<"assistant", <<"r", "1">>>>,
        <<"assistant", NoResponse>>, <<"user", Hi>>, <<"assistant", FallbackOf(<<"4", "2", "9">>)>>>> }

InitPrompt ==
    /\ \E win \in PromptWindows : history = IF win = <<>> THEN <<>> ELSE ("u1" :> win)
    /\ hist_lock = NoThread
    /\ req = [r \in Reqs |-> IdleReq]
    /\ \E t1, t2 \in {Hi, NoText} :
          thr = [w \in {<<0, 1>>, <<0, 2>>, <<2, 1>>, <<2, 2>>} |->
                    IF w = <<0, 1>> THEN Appender("u2", 1)
                    ELSE IF w = <<0, 2>> THEN Appender("u1", 2)
                    ELSE Builder("u1", IF w[2] = 1 THEN t1 ELSE t2)]

NextPrompt ==
    \/ \E w \in Threads : AtAcquire(w)
    \/ \E w \in Threads : AtPut(w)
    \/ \E w \in Threads : AtAppend(w)
    \/ \E w \in Threads : BpSnapshot(w)
    \/ \E w \in Threads : BpRelease(w)

SpecPrompt == InitPrompt /\ [][NextPrompt]_vars

----------------------------------------------------------------------------
(* The first two steps of one worker_reply call for a user, while          *)
(* NumRivals append_turn calls of other workers for the same user are      *)
(* under way                                                                *)

Crowded == <<3, 1>>
Rivals == {<<0, c>> : c \in 1 .. NumRivals}

InitCrowd ==
    /\ history = <<>>
    /\ hist_lock = NoThread
    /\ req = [r \in Reqs |-> IdleReq]
    /\ thr = [w \in Rivals \cup {Crowded} |->
                 IF w = Crowded THEN worker_reply("u1", Hi, Crowded)
                 ELSE Appender("u1", w[2])]

\* the worker is followed up to its call of generate_content
SpecCrowd == InitCrowd /\ [][NextAppend]_vars

----------------------------------------------------------------------------
(* Properties *)

Min(a, b) == IF a <= b THEN a ELSE b

\* the last n elements of s
LastN(n, s) == IF Len(s) <= n THEN s ELSE SubSeq(s, Len(s) - n + 1, Len(s))

NoRepeat(s) == \A i, j \in 1 .. Len(s) : s[i] = s[j] => i = j

\* the threads whose append_turn call for user u has returned
Returned(u) ==
    {w \in Threads \cap Callers : thr[w].user_id = u /\ thr[w].pc = "done"}

NoAppendInProgress == \A w \in Threads : thr[w].pc \notin AppendPcs

\* C1: whenever no append_turn call is inside its critical section, and so in
\* the final state, each user's window is the last min(T, 6) turns of some
\* total order of the T calls that have returned for that user: it has
\* min(T, 6) turns, no turn twice, and every one of them was appended by a
\* call that returned (a sequence without repeats, of that length, over the T
\* turns is exactly a suffix of one of their orderings).
C1_ConcurrentAppendsLinearize ==
    NoAppendInProgress =>
        \A u \in {"u1", "anonymous"} :
            LET win == Window(u)
            IN  /\ Len(win) = Min(Cardinality(Returned(u)), 6)
                /\ NoRepeat(win)
                /\ \A i \in 1 .. Len(win) : \E w \in Returned(u) : thr[w].arg = win[i]

\* C1 witness: all callers appended for u1, more than 6 of them, and the call
\* of caller 1 was serialized last
C1_Witness ==
    /\ Threads = Callers
    /\ \A w \in Threads : thr[w].pc = "done" /\ thr[w].user_id = "u1"
    /\ Cardinality(Threads) > 6
    /\ Len(Window("u1")) = 6
    /\ Window("u1")[6] = CallerTurn(1)

\* C2: in every reachable state every user's window holds at most 6 turns
C2_WindowAtMostSix == \A u \in DOMAIN history : Len(history[u]) <= 6

\* C2 witness: a 7th turn has been appended to a window, which holds 6
C2_Witness ==
    \E u \in DOMAIN history :
        /\ Cardinality(Returned(u)) >= 7
        /\ Len(history[u]) = 6

\* the appends of the k-th sequential worker_reply call that have been made
UserAppended(w) ==
    ~(thr[w].ret = "bp_lock" /\ thr[w].pc \in {"at_lock", "at_put", "at_app"})
AssistantAppended(w) == thr[w].pc \in {"send", "done", "dead"}

UserTurnOf(w) == <<"user", IF thr[w].user_text = <<>> THEN EmptyPlaceholder ELSE thr[w].user_text>>
AssistantTurnOf(w) == <<"assistant", thr[w].reply>>

\* the turns appended by the exchanges k .. n, in the order of the calls
RECURSIVE AppendedFrom(_, _)
AppendedFrom(k, n) ==
    IF k > n THEN <<>>
    ELSE LET w == <<0, k>>
         IN  (IF UserAppended(w) THEN <<UserTurnOf(w)>> ELSE <<>>)
                 \o (IF AssistantAppended(w) THEN <<AssistantTurnOf(w)>> ELSE <<>>)
                 \o AppendedFrom(k + 1, n)

\* C3: when worker_reply is called for one user one call after the other, the
\* window is at every moment the last 6 of the turns appended so far, in the
\* order they were appended, and so is the snapshot a call takes; after k >= 3
\* exchanges it is the user and assistant turns of the last 3 exchanges.
C3_SequentialLastSix ==
    LET n == Cardinality(Threads)
    IN  /\ Window("u1") = LastN(6, AppendedFrom(1, n))
        /\ \A k \in 1 .. n :
              thr[<<0, k>>].pc = "bp_rel" =>
                  thr[<<0, k>>].past = LastN(6, AppendedFrom(1, k))
        /\ (n >= 3 /\ AssistantAppended(<<0, n>>)) =>
              Window("u1") = <<UserTurnOf(<<0, n - 2>>), AssistantTurnOf(<<0, n - 2>>),
                               UserTurnOf(<<0, n - 1>>), AssistantTurnOf(<<0, n - 1>>),
                               UserTurnOf(<<0, n>>), AssistantTurnOf(<<0, n>>)>>

\* C3 witness: the 5th exchange has ended (10 appends), its generation failed
C3_Witness ==
    /\ <<0, 5>> \in Threads
    /\ thr[<<0, 5>>].pc \in FinalPcs
    /\ thr[<<0, 5>>].failed
    /\ Len(Window("u1")) = 6

\* the snapshot a build_prompt call has just taken (the lock is still held)
C4_SnapshotState ==
    \A w \in Threads :
        thr[w].pc = "bp_rel" =>
            LET u == thr[w].user_id
            IN  /\ \A v \in Threads \ {w} : thr[v].pc \notin AppendPcs
                /\ u \in DOMAIN history => thr[w].past = history[u]
                /\ u \notin DOMAIN history => thr[w].past = <<>>
                /\ Len(thr[w].past) = Min(Cardinality(Returned(u)), 6)

\* C4: the snapshot build_prompt takes while other threads append is the
\* user's window at the instant it is taken, and at that instant no append is
\* half applied (no thread is inside the critical section of append_turn, and
\* the snapshot holds exactly the turns of the appends that have returned); it
\* is empty when the user has no entry; and it is a copy: no later step of any
\* thread changes it.
C4_SnapshotAtomicCopy ==
    /\ []C4_SnapshotState
    /\ [][\A w \in Threads :
             (thr[w].snapped /\ thr'[w].snapped) => thr'[w].past = thr[w].past]_vars

\* C4 witness: a build_prompt call returned a snapshot of one turn and two
\* more turns were appended since; the call for a user without entry returned
\* the empty sequence
C4_Witness ==
    /\ <<1, 1>> \in Threads
    /\ thr[<<1, 1>>].pc = "done" /\ Len(thr[<<1, 1>>].past) = 1
    /\ Len(Window("u1")) = 3
    /\ thr[<<1, 2>>].pc = "done" /\ thr[<<1, 2>>].past = <<>>
    /\ "u2" \notin DOMAIN history

\* the worker threads started for the events of request r
WorkersOf(r) == {w \in Threads : w[1] = r}

\* a POST /callback with a valid signature and a well-formed body
ValidPost(r) ==
    req[r].method = "POST" /\ req[r].sig = "valid" /\ req[r].body.ok

\* C5: a POST /callback with a valid signature (and a body that parses), once
\* a worker has been started for each of its text events, can return at once
\* whatever its workers are doing, and the status it returns is 200 whatever
\* became of them.
C5_AcknowledgedWithoutWaiting ==
    \A r \in Reqs :
        ValidPost(r) =>
            /\ (req[r].pc = "dispatch" /\ req[r].idx > Len(req[r].body.events))
                  => ENABLED CallbackReturn(r)
            /\ req[r].pc = "done" => req[r].status = 200

\* C5 witness: 200 was returned while one worker of the request has died in
\* the send call and another is still inside the generation call
C5_Witness ==
    \E r \in Reqs :
        /\ ValidPost(r) /\ req[r].pc = "done" /\ req[r].status = 200
        /\ \E w \in WorkersOf(r) : thr[w].pc = "dead"
        /\ \E w \in WorkersOf(r) : thr[w].pc = "gen"

\* a POST /callback whose signature is missing or does not match
BadSignaturePost(r) == req[r].method = "POST" /\ req[r].sig # "valid"

\* C6: a POST /callback whose signature is missing or does not match returns
\* 400 and starts no worker, and handling it changes no window and no thread.
C6_BadSignatureRejected ==
    /\ [](\A r \in Reqs :
             BadSignaturePost(r) =>
                 req[r].pc = "done" /\ req[r].status = 400 /\ WorkersOf(r) = {})
    /\ [][\A r \in Reqs :
             (req'[r] # req[r] /\ req'[r].method = "POST" /\ req'[r].sig # "valid")
                 => (history' = history /\ thr' = thr)]_vars

\* C6 witness: a request with a wrong signature was answered 400 while a
\* worker of another request is running and a window holds a turn
C6_Witness ==
    \E r \in Reqs :
        /\ req[r].method = "POST" /\ req[r].sig = "bad" /\ req[r].status = 400
        /\ TextEvents(req[r].body) # {}
        /\ \E w \in Threads : thr[w].pc = "gen"
        /\ history # <<>>

\* C7: a correctly signed POST /callback whose body fails to parse is
\* answered with the client error of a bad signature (400), and no worker is
\* started for any of its events.
C7_MalformedRejectedAsBadSignature ==
    \A r \in Reqs :
        (req[r].method = "POST" /\ req[r].sig = "valid" /\ ~req[r].body.ok
            /\ req[r].pc = "done")
            => (req[r].status = 400 /\ WorkersOf(r) = {})

\* the reply_message request a worker makes with the fallback text
FallbackRequest(w) ==
    [replyToken |-> thr[w].reply_token, text |-> GeminiErrorPrefix \o thr[w].err]

\* C8: when generation raises, the worker goes on: its reply is "Gemini
\* error: " followed by the failure detail, that text is the assistant turn it
\* appends to the user's window, and the same text is what it passes to
\* reply_message; it ends only in or after the send.
C8_GenerationFailureFallback ==
    /\ [](\A w \in Threads :
             thr[w].failed =>
                 /\ thr[w].reply = GeminiErrorPrefix \o thr[w].err
                 /\ thr[w].pc \in {"at_lock", "at_put", "at_app", "send", "done", "dead"}
                 /\ thr[w].pc \in {"at_lock", "at_put", "at_app"} =>
                       thr[w].arg = <<"assistant", GeminiErrorPrefix \o thr[w].err>>
                 /\ thr[w].pc \in FinalPcs => thr[w].sent = <<FallbackRequest(w)>>)
    /\ [][\A w \in Threads :
             (thr[w].failed /\ thr[w].pc = "at_app" /\ thr'[w].pc = "send") =>
                 LET win == history'[thr[w].user_id]
                 IN  win[Len(win)] = <<"assistant", GeminiErrorPrefix \o thr[w].err>>]_vars

\* C8 witness: a worker whose generation raised has returned, after appending
\* the fallback as the newest turn and sending it
C8_Witness ==
    \E w \in Threads :
        /\ thr[w].failed /\ thr[w].pc = "done"
        /\ thr[w].sent = <<FallbackRequest(w)>>
        /\ LET win == Window(thr[w].user_id)
           IN  win # <<>> /\ win[Len(win)] = <<"assistant", FallbackRequest(w).text>>

\* C9: a worker calls reply_message at most once; when that call fails the
\* worker ends there: the failing step leaves every window and every request
\* as they are, the dead worker takes no further step, a response that was
\* given stays as given, and the request of a dead worker is answered 200.
C9_SendOnceNoRetry ==
    /\ [](\A w \in Threads :
             /\ Len(thr[w].sent) <= 1
             /\ (thr[w].pc = "dead" /\ w[1] \in Reqs /\ req[w[1]].pc = "done")
                   => req[w[1]].status = 200)
    /\ [][\A w \in Threads :
             /\ (thr[w].pc = "send" /\ thr'[w].pc # "send")
                   => thr'[w].pc \in FinalPcs
             /\ (thr[w].pc = "send" /\ thr'[w].pc = "dead")
                   => (history' = history /\ req' = req)
             /\ thr[w].pc = "dead" => thr'[w] = thr[w]]_vars
    /\ [][\A r \in Reqs : req[r].pc = "done" => req'[r] = req[r]]_vars

\* C9 witness: a worker died in its only send, after the 200 was returned;
\* its user and assistant turns are still in the window
C9_Witness ==
    \E w \in Threads :
        /\ thr[w].pc = "dead" /\ Len(thr[w].sent) = 1
        /\ w[1] \in Reqs /\ req[w[1]].pc = "done" /\ req[w[1]].status = 200
        /\ Window(thr[w].user_id) = <<UserTurnOf(w), AssistantTurnOf(w)>>

\* a request with a valid signature carrying exactly one text-message event
OneTextEvent(r) == ValidPost(r) /\ Cardinality(TextEvents(req[r].body)) = 1

\* C10 as claimed: the worker of a request with one text event calls
\* reply_message only after the response to that request was returned.
C10_SendAfterResponse ==
    \A w \in Threads :
        (w[1] \in Reqs /\ OneTextEvent(w[1]) /\ thr[w].sent # <<>>)
            => req[w[1]].pc = "done"

\* C10 as amended: the worker of a request with one text event calls
\* reply_message, with the reply token of that event and the reply it
\* appended, only after the handler of that request has verified the
\* signature and started the worker for that event; the response to the
\* request may or may not have been returned by then.
C10_SendAfterDispatch ==
    \A w \in Threads :
        (w[1] \in Reqs /\ thr[w].sent # <<>>) =>
            /\ req[w[1]].sig = "valid" /\ req[w[1]].body.ok
            /\ req[w[1]].pc \in {"dispatch", "done"}
            /\ req[w[1]].idx > w[2]
            /\ req[w[1]].body.events[w[2]].kind = "text"
            /\ thr[w].sent = <<[replyToken |-> w, text |-> thr[w].reply]>>

\* C10 witness: the worker of a request with one text event has sent its
\* reply and the response to the request has been returned
C10_Witness ==
    \E w \in Threads :
        /\ w[1] \in Reqs /\ OneTextEvent(w[1])
        /\ thr[w].sent # <<>>
        /\ req[w[1]].pc = "done" /\ req[w[1]].status = 200

\* a worker whose generation call returned a text
Succeeded(w) == thr[w].ret = "send" /\ ~thr[w].failed

\* the reply the worker passed to its second append_turn call and to
\* reply_message, once made
Recorded(w, reply) ==
    /\ thr[w].reply = reply
    /\ thr[w].arg = <<"assistant", reply>>
    /\ thr[w].pc \in {"send", "done", "dead"} =>
          Window(thr[w].user_id)[Len(Window(thr[w].user_id))] = <<"assistant", reply>>
    /\ thr[w].pc \in FinalPcs => thr[w].sent = <<[replyToken |-> w, text |-> reply]>>

\* C11 as claimed: when the generated text is longer than 1000 characters
\* the reply is its first 1000 characters followed by U+2026, and otherwise
\* the reply is the generated text unchanged (an empty text, which has its
\* own rule, set aside).
C11_TruncationOfResult ==
    \A w \in Threads :
        (Succeeded(w) /\ thr[w].resp # <<>>) =>
            thr[w].reply =
                IF Len(thr[w].resp) > 1000
                THEN SubSeq(thr[w].resp, 1, 1000) \o Ellipsis
                ELSE thr[w].resp

\* C11 as amended: let r be the generated text, replaced by "(No response)"
\* when it is empty, without its leading and trailing white space.  When r
\* is longer than 1000 characters the reply is the first 1000 characters of r
\* followed by U+2026; otherwise the reply is r unchanged.  That reply is the
\* assistant turn the worker appends and the text it sends.
C11_TruncationOfStripped ==
    \A w \in Threads :
        Succeeded(w) =>
            LET r == Strip(IF thr[w].resp = <<>> THEN NoResponse ELSE thr[w].resp)
            IN  Recorded(w, IF Len(r) > 1000
                            THEN SubSeq(r, 1, 1000) \o Ellipsis
                            ELSE r)

\* C11 witness: a text of 1001 characters between white space was cut to its
\* first 1000 characters and the marker, and that reply was sent
C11_Witness ==
    \E w \in Threads :
        /\ Succeeded(w) /\ thr[w].pc = "done"
        /\ Len(thr[w].resp) = 1003 /\ Len(Strip(thr[w].resp)) = 1001
        /\ Len(thr[w].reply) = 1001
        /\ thr[w].reply[1001] = Ellipsis[1]
        /\ thr[w].reply[1000] = thr[w].resp[1001]

\* C12: whatever the generation call did (raised, returned an empty text, a
\* text of white space only, or any other text), the reply a worker appends
\* as the assistant turn and passes to reply_message is not empty, and an
\* empty generated text gives the reply "(No response)".
C12_ReplyNeverEmpty ==
    /\ \A w \in Threads :
          /\ thr[w].ret = "send" => thr[w].reply # <<>>
          /\ (Succeeded(w) /\ thr[w].resp = <<>>) => thr[w].reply = NoResponse
          /\ \A i \in 1 .. Len(thr[w].sent) : thr[w].sent[i].text # <<>>
    /\ \A u \in DOMAIN history :
          \A i \in 1 .. Len(history[u]) :
              history[u][i][1] = "assistant" => history[u][i][2] # <<>>

\* C13: a GET on / or on /callback is answered 200 in one step, whatever the
\* state and whatever the workers are doing; it starts no worker, and the
\* step that answers it changes no window, no thread and not the lock.
C13_HealthChecks ==
    /\ [](\A r \in Reqs :
             req[r].method = "GET" =>
                 /\ req[r].path \in {"/", "/callback"}
                 /\ req[r].pc = "done" /\ req[r].status = 200
                 /\ WorkersOf(r) = {})
    /\ [][\A r \in Reqs :
             (req[r].pc = "idle" /\ req'[r].method = "GET")
                 => (history' = history /\ thr' = thr /\ hist_lock' = hist_lock)]_vars

\* C13 witness: a GET on /callback was answered 200 while a worker holds the
\* history lock inside append_turn
C13_Witness ==
    \E r \in Reqs :
        /\ req[r].method = "GET" /\ req[r].path = "/callback" /\ req[r].status = 200
        /\ \E w \in Threads : hist_lock = w /\ thr[w].pc = "at_app"
        /\ history # <<>>

\* a thread holding the prompt its build_prompt call returned
HasPrompt(w) == thr[w].snapped /\ thr[w].pc # "bp_rel"

\* C14: the prompt build_prompt returns for user u and text t depends on u's
\* window at the call and on t alone: the snapshot it renders is u's window
\* in the state of the call, and two calls for u with the same text whose
\* snapshots are equal return the same prompt, whatever was appended for u or
\* for any other user between them.
C14_PromptDeterministic ==
    /\ \A w \in Threads : thr[w].pc = "bp_rel" => thr[w].past = Window(thr[w].user_id)
    /\ \A w1, w2 \in Threads :
          (/\ HasPrompt(w1) /\ HasPrompt(w2)
           /\ thr[w1].user_id = thr[w2].user_id
           /\ thr[w1].user_text = thr[w2].user_text
           /\ thr[w1].past = thr[w2].past)
              => thr[w1].prompt = thr[w2].prompt

\* C14 witness: two calls for u1 with the same text returned the same prompt
\* from equal snapshots; since then a turn was appended for u1 and another
\* user got an entry
C14_Witness ==
    /\ {<<2, 1>>, <<2, 2>>} \subseteq Threads
    /\ HasPrompt(<<2, 1>>) /\ HasPrompt(<<2, 2>>)
    /\ thr[<<2, 1>>].user_text = thr[<<2, 2>>].user_text
    /\ thr[<<2, 1>>].past = thr[<<2, 2>>].past
    /\ thr[<<2, 1>>].prompt = thr[<<2, 2>>].prompt
    /\ thr[<<2, 1>>].past # Window("u1")
    /\ "u2" \in DOMAIN history

\* the line of one turn
TurnLine(turn) ==
    (CASE turn[1] = "user" -> <<"U", "s", "e", "r">>
       [] turn[1] = "assistant" -> <<"A", "s", "s", "i", "s", "t", "a", "n", "t">>)
        \o <<":", " ">> \o turn[2]

\* the lines of the turns 1 .. n of past, each but the last ended by a newline
RECURSIVE HistoryBlock(_, _)
HistoryBlock(past, n) ==
    IF n = 0 THEN <<>>
    ELSE HistoryBlock(past, n - 1) \o TurnLine(past[n])
             \o (IF n < Len(past) THEN <<"\n">> ELSE <<>>)

\* C18: the prompt build_prompt returns carries, between the template head
\* and the user heading, the turns of its snapshot in insertion order, one
\* line "User: <text>" or "Assistant: <text>" per turn, the lines separated
\* by newlines; when the snapshot is empty it carries the no-history marker
\* there instead.
C18_HistoryRendered ==
    \A w \in Threads :
        HasPrompt(w) =>
            LET past == thr[w].past
                block == IF past = <<>> THEN NoHistoryMarker
                         ELSE HistoryBlock(past, Len(past))
            IN  thr[w].prompt =
                    PromptHead \o block \o PromptMid \o thr[w].user_text \o PromptTail

\* C18 witness: a prompt was built from a full window of six turns that
\* starts with two user turns, and another after a seventh turn was appended
C18_Witness ==
    /\ {<<2, 1>>, <<2, 2>>} \subseteq Threads
    /\ HasPrompt(<<2, 1>>) /\ HasPrompt(<<2, 2>>)
    /\ Len(thr[<<2, 1>>].past) = 6
    /\ thr[<<2, 1>>].past[1][1] = "user" /\ thr[<<2, 1>>].past[2][1] = "user"
    /\ Len(thr[<<2, 2>>].past) = 6
    /\ thr[<<2, 2>>].past[6] = CallerTurn(2)

\* the steps of worker_reply, in the order of its statements
WorkerSteps == <<"append_user", "snapshot", "generate", "append_assistant", "send">>

\* C15: in every interleaving, the steps a worker has made are an initial
\* part of: append of the user turn, snapshot of the window, generation,
\* append of the assistant turn, reply_message; a worker that has ended has
\* made all five, each once.
C15_WorkerStepOrder ==
    \A w \in Threads :
        /\ Len(thr[w].log) <= Len(WorkerSteps)
        /\ thr[w].log = SubSeq(WorkerSteps, 1, Len(thr[w].log))
        /\ thr[w].pc \in FinalPcs => thr[w].log = WorkerSteps

\* C15 witness: two workers of one user have both ended, and the window shows
\* that their appends were interleaved: both user turns, then both replies
C15_Witness ==
    \E w1, w2 \in Threads :
        /\ w1 # w2 /\ thr[w1].user_id = thr[w2].user_id
        /\ thr[w1].pc = "done" /\ thr[w2].pc = "dead"
        /\ thr[w1].log = WorkerSteps /\ thr[w2].log = WorkerSteps
        /\ Window(thr[w1].user_id) =
              <<UserTurnOf(w1), UserTurnOf(w2), AssistantTurnOf(w2), AssistantTurnOf(w1)>>

\* C16: hist_lock is held only inside the with blocks of append_turn and
\* build_prompt, never by a worker inside generate_content or reply_message.
\* So when the generation call of the worker Hung never returns, under fair
\* scheduling every other worker, of the same user or another, ends (after
\* its two appends and its send), every thread that asks for the lock gets
\* through its critical section, and every request that was accepted is
\* answered.
C16_HungGenerationBlocksNoOne ==
    /\ [](\A w \in Threads :
             /\ thr[w].pc \in {"gen", "send"} => hist_lock # w
             /\ hist_lock = w => thr[w].pc \in {"at_put", "at_app", "bp_rel"})
    /\ \A w \in Tokens \ {Hung} :
          (w \in Threads) ~>
              (w \in Threads /\ thr[w].pc \in FinalPcs /\ Len(thr[w].sent) = 1)
    /\ (Hung \in Threads) ~>
          (Hung \in Threads /\ thr[Hung].pc \in {"gen"} \cup FinalPcs)
    /\ \A r \in Reqs : (req[r].pc = "dispatch") ~> (req[r].pc = "done")

\* C16 witness: the worker Hung is inside generate_content while another
\* worker of the same user has returned and every request has been answered
C16_Witness ==
    /\ Hung \in Threads /\ thr[Hung].pc = "gen"
    /\ \E w \in Threads \ {Hung} :
          /\ thr[w].user_id = thr[Hung].user_id
          /\ thr[w].pc = "done" /\ thr[w].log = WorkerSteps
    /\ \A r \in Reqs : req[r].pc = "done"
    /\ hist_lock = NoThread

\* the text of the message event a worker was started for
MessageText(w) == req[w[1]].body.events[w[2]].text

OnlySpace(text) == \A i \in 1 .. Len(text) : text[i] \in {" ", "\t", "\n"}

\* the user turn a worker passes to its first append_turn call, until that
\* call has returned
AppendingUserTurn(w) ==
    w[1] \in Reqs /\ thr[w].ret = "bp_lock" /\ thr[w].pc \in {"at_lock", "at_put", "at_app"}

\* no user turn in any window has an empty text
NoEmptyUserTurn ==
    \A u \in DOMAIN history :
        \A i \in 1 .. Len(history[u]) :
            history[u][i][1] = "user" => history[u][i][2] # <<>>

\* C17 as claimed: the user turn a worker appends has the placeholder
\* "(empty)" as its text when the message text is empty or white space only,
\* and the message text itself otherwise; it is never empty.
C17_UserTurnIsMessageText ==
    /\ NoEmptyUserTurn
    /\ \A w \in Threads :
          AppendingUserTurn(w) =>
              thr[w].arg = <<"user", IF OnlySpace(MessageText(w)) THEN EmptyPlaceholder
                                     ELSE MessageText(w)>>

\* C17 as amended: the user turn a worker appends has the placeholder
\* "(empty)" as its text when the message text is empty or white space only,
\* and otherwise the message text without its leading and trailing white
\* space; it is never empty, and it is that turn which the append puts at the
\* end of the user's window.
C17_UserTurnIsStrippedText ==
    /\ [](NoEmptyUserTurn
           /\ \A w \in Threads :
                 AppendingUserTurn(w) =>
                     /\ thr[w].arg[2] # <<>>
                     /\ thr[w].arg =
                           <<"user", IF OnlySpace(MessageText(w)) THEN EmptyPlaceholder
                                     ELSE RStrip(LStrip(MessageText(w)))>>)
    /\ [][\A w \in Threads :
             (AppendingUserTurn(w) /\ thr[w].pc = "at_app" /\ thr'[w].pc # "at_app") =>
                 LET win == history'[thr[w].user_id]
                 IN  win[Len(win)] = thr[w].arg]_vars

\* C17 witness: the window of one user holds the stripped text of a message
\* that had white space around it, and the window of another the placeholder
\* of a message of white space only
C17_Witness ==
    /\ \E w \in Threads :
          /\ w[1] \in Reqs /\ thr[w].log # <<>>
          /\ MessageText(w) = HiPadded
          /\ Window(thr[w].user_id)[1] = <<"user", Hi>>
    /\ \E w \in Threads :
          /\ w[1] \in Reqs /\ thr[w].log # <<>>
          /\ MessageText(w) = Blank
          /\ Window(thr[w].user_id)[1] = <<"user", EmptyPlaceholder>>

\* every step that changes the store is a step of one thread inside
\* append_turn, and changes the window of that thread's user alone; no entry
\* is removed; an entry is created only by a call that found none
AppendFrame ==
    history' # history =>
        /\ DOMAIN history \subseteq DOMAIN history'
        /\ \E w \in Threads :
              /\ thr[w].pc \in AppendPcs /\ thr'[w] # thr[w]
              /\ hist_lock = w
              /\ DOMAIN history' \subseteq DOMAIN history \cup {thr[w].user_id}
              /\ \A u \in DOMAIN history : u # thr[w].user_id => history'[u] = history[u]
              /\ thr[w].user_id \notin DOMAIN history =>
                    (thr[w].pc = "at_put" /\ thr[w].dq = "None")

\* C19 as claimed (append_turn for user u changes only u's window, creating
\* it on u's first turn, and no entry is ever removed), in its last part: in
\* no state does an entry hold an empty window.
C19_NeverEmptyEntry == \A u \in DOMAIN history : history[u] # <<>>

\* C19 as amended: append_turn for user u changes only u's window, creating
\* it on u's first turn; no entry is ever removed, and build_prompt creates
\* none; an entry holds an empty window only inside the critical section of
\* the append_turn call that created it, between the creation and the
\* append, so never while hist_lock is free and in no snapshot of an entry.
C19_AppendFrame ==
    /\ [][AppendFrame]_vars
    /\ [](\A u \in DOMAIN history :
             history[u] = <<>> =>
                 \E w \in Threads :
                     /\ hist_lock = w /\ thr[w].pc = "at_app"
                     /\ thr[w].user_id = u /\ thr[w].dq = "deque")
    /\ [](\A w \in Threads :
             (thr[w].pc = "bp_rel" /\ thr[w].user_id \in DOMAIN history)
                 => thr[w].past # <<>>)

\* C19 witness: the last caller created the entry of a second user with its
\* turn, after six turns had been appended for the first user, whose window
\* is still those six turns
C19_Witness ==
    /\ Threads = Callers
    /\ DOMAIN history = {"u1", "anonymous"}
    /\ history["anonymous"] = <<CallerTurn(NumCallers)>>
    /\ Len(history["u1"]) = 6
    /\ \A w \in Threads : thr[w].pc = "done"

\* a worker (not a lone append_turn or build_prompt call) that has just
\* taken the snapshot for its prompt
TookSnapshot(w) == thr[w].bret = "gen" /\ thr[w].pc = "bp_rel"

Contains(past, turn) == \E i \in 1 .. Len(past) : past[i] = turn

\* C20 as claimed: in every interleaving the snapshot a worker takes is not
\* empty and contains the user turn that worker appended.
C20_SnapshotHasOwnTurn ==
    \A w \in Threads :
        TookSnapshot(w) =>
            (thr[w].past # <<>> /\ Contains(thr[w].past, UserTurnOf(w)))

\* C20 as amended: in every interleaving the snapshot a worker takes is not
\* empty; it contains the user turn that worker appended unless six or more
\* turns were appended for the same user between the worker's append and
\* its snapshot, in which case it holds six turns of the other workers.
C20_SnapshotHasOwnTurnUnlessEvicted ==
    \A w \in Threads :
        TookSnapshot(w) =>
            /\ thr[w].past # <<>>
            /\ \/ Contains(thr[w].past, UserTurnOf(w))
               \/ /\ Len(thr[w].past) = 6
                  /\ \A i \in 1 .. 6 :
                        \E v \in Returned(thr[w].user_id) : thr[v].arg = thr[w].past[i]

\* C20 witness: the snapshot of the worker holds six turns, the oldest of
\* them its own user turn: five turns of other workers came after it
C20_Witness ==
    /\ Crowded \in Threads /\ TookSnapshot(Crowded)
    /\ Len(thr[Crowded].past) = 6
    /\ thr[Crowded].past[1] = UserTurnOf(Crowded)

====
